---- MODULE Spec2Model ----
(***************************************************************************)
(* Model of the question -> SQL -> answer pipeline of BusinessAIAgent      *)
(* (src/ai_agent.py).                                                      *)
(*                                                                         *)
(* Text is modelled character by character: a Python str is a TLA+ string, *)
(* taken apart with Len and SubSeq and put together with \o.  A TLA+       *)
(* string literal cannot hold a backtick, so the character "^" stands for  *)
(* the backtick wherever the source writes one.                            *)
(***************************************************************************)
EXTENDS Integers, Sequences, FiniteSets, TLC

(***************************************************************************)
(* Python str primitives                                                   *)
(***************************************************************************)
LowerAlpha == "abcdefghijklmnopqrstuvwxyz"
UpperAlpha == "ABCDEFGHIJKLMNOPQRSTUVWXYZ"

CharAt(s, i) == SubSeq(s, i, i)

Drop(s, n) == SubSeq(s, n + 1, Len(s))

Take(s, n) == SubSeq(s, 1, n)

\* str.upper and str.lower, letter by letter
ToUpper == [c \in {CharAt(LowerAlpha, i) : i \in 1..Len(LowerAlpha)} |->
               CharAt(UpperAlpha, CHOOSE i \in 1..Len(LowerAlpha) : CharAt(LowerAlpha, i) = c)]

ToLower == [c \in {CharAt(UpperAlpha, i) : i \in 1..Len(UpperAlpha)} |->
               CharAt(LowerAlpha, CHOOSE i \in 1..Len(UpperAlpha) : CharAt(UpperAlpha, i) = c)]

RECURSIVE Upper(_)
Upper(s) ==
    IF s = "" THEN ""
    ELSE LET c == CharAt(s, 1)
         IN  (IF c \in DOMAIN ToUpper THEN ToUpper[c] ELSE c) \o Upper(Drop(s, 1))

RECURSIVE Lower(_)
Lower(s) ==
    IF s = "" THEN ""
    ELSE LET c == CharAt(s, 1)
         IN  (IF c \in DOMAIN ToLower THEN ToLower[c] ELSE c) \o Lower(Drop(s, 1))

IsSpace(c) == c \in {" ", "\n", "\t", "\r", "\f"}

RECURSIVE LStrip(_)
LStrip(s) ==
    IF s # "" /\ IsSpace(CharAt(s, 1)) THEN LStrip(Drop(s, 1)) ELSE s

RECURSIVE RStrip(_)
RStrip(s) ==
    IF s # "" /\ IsSpace(CharAt(s, Len(s))) THEN RStrip(Take(s, Len(s) - 1)) ELSE s

Strip(s) == RStrip(LStrip(s))

\* the first whitespace-delimited word of s
RECURSIVE FirstWord(_)
FirstWord(s) ==
    IF s = "" \/ IsSpace(CharAt(s, 1)) THEN ""
    ELSE CharAt(s, 1) \o FirstWord(Drop(s, 1))

StartsWith(s, prefix) ==
    Len(prefix) <= Len(s) /\ Take(s, Len(prefix)) = prefix

Contains(s, sub) ==
    \E i \in 1..(Len(s) - Len(sub) + 1) : SubSeq(s, i, i + Len(sub) - 1) = sub

\* s.split('\n')
RECURSIVE SplitLines(_)
SplitLines(s) ==
    IF \E i \in 1..Len(s) : CharAt(s, i) = "\n"
    THEN LET i == CHOOSE k \in 1..Len(s) :
                      /\ CharAt(s, k) = "\n"
                      /\ \A j \in 1..(k - 1) : CharAt(s, j) # "\n"
         IN  <<Take(s, i - 1)>> \o SplitLines(Drop(s, i))
    ELSE <<s>>

\* '\n'.join(lines)
RECURSIVE JoinLines(_)
JoinLines(lines) ==
    IF lines = <<>> THEN ""
    ELSE IF Len(lines) = 1 THEN lines[1]
    ELSE lines[1] \o "\n" \o JoinLines(Tail(lines))

\* ReSubFence with count = 1: only the leftmost occurrence goes
RECURSIVE ReSubFence_FirstOnly(_, _)
ReSubFence_FirstOnly(pat, s) ==
    IF Len(s) < Len(pat) THEN s
    ELSE IF StartsWith(s, pat)
    THEN LET rest == Drop(s, Len(pat))
         IN  IF StartsWith(rest, "\n") THEN Drop(rest, 1) ELSE rest
    ELSE CharAt(s, 1) \o ReSubFence_FirstOnly(pat, Drop(s, 1))

\* re.sub(pat + r'\n?', '', s) for a literal pat: every occurrence, leftmost
\* first and without overlap, goes together with one newline that follows it
RECURSIVE ReSubFence(_, _)
ReSubFence(pat, s) ==
    IF Len(s) < Len(pat) THEN s
    ELSE IF StartsWith(s, pat)
    THEN LET rest == Drop(s, Len(pat))
         IN  ReSubFence(pat, IF StartsWith(rest, "\n") THEN Drop(rest, 1) ELSE rest)
    ELSE CharAt(s, 1) \o ReSubFence(pat, Drop(s, 1))

\* Optional values: None, or Some(v)
None == [some |-> FALSE, val |-> ""]

Some(v) == [some |-> TRUE, val |-> v]

\* Python truthiness of an optional str
Truthy(o) == o.some /\ o.val # ""

(***************************************************************************)
(* _get_predefined_query                                                   *)
(***************************************************************************)
BestSellerQuery ==
    "\n            SELECT \n                strftime('%Y-%m', so.order_date) AS month,\n                p.product_name,\n                SUM(soi.quantity) AS total_quantity,\n                SUM(soi.line_total) AS total_revenue,\n                COUNT(DISTINCT so.order_id) AS order_count\n            FROM sales_orders so\n            JOIN sales_order_items soi ON so.order_id = soi.order_id\n            JOIN products p ON soi.product_id = p.product_id\n            WHERE so.order_status != 'Cancelled'\n            GROUP BY strftime('%Y-%m', so.order_date), p.product_id, p.product_name\n            ORDER BY month DESC, total_revenue DESC\n            "

TopProductQuery ==
    "\n            SELECT \n                p.product_name,\n                SUM(soi.line_total) AS total_revenue,\n                SUM(soi.quantity) AS total_quantity,\n                COUNT(DISTINCT so.order_id) AS order_count\n            FROM sales_order_items soi\n            JOIN products p ON soi.product_id = p.product_id\n            JOIN sales_orders so ON soi.order_id = so.order_id\n            WHERE so.order_status != 'Cancelled'\n            GROUP BY p.product_id, p.product_name\n            ORDER BY total_revenue DESC\n            LIMIT 10\n            "

MonthlySalesQuery ==
    "\n            SELECT \n                strftime('%Y-%m', order_date) AS month,\n                COUNT(*) AS order_count,\n                SUM(total_amount) AS total_revenue,\n                AVG(total_amount) AS avg_order_value\n            FROM sales_orders\n            WHERE order_status != 'Cancelled'\n            GROUP BY strftime('%Y-%m', order_date)\n            ORDER BY month DESC\n            LIMIT 12\n            "

LowStockQuery ==
    "\n            SELECT \n                p.product_name,\n                w.warehouse_name,\n                i.quantity_on_hand,\n                i.reorder_level,\n                i.max_stock_level\n            FROM inventory i\n            JOIN products p ON i.product_id = p.product_id\n            JOIN warehouses w ON i.warehouse_id = w.warehouse_id\n            WHERE i.quantity_on_hand <= i.reorder_level\n            ORDER BY i.quantity_on_hand ASC\n            "

\* the four predicates on the lower-cased question, in the order of the if/elif chain
IsBestSeller(question_lower) ==
    /\ Contains(question_lower, "best seller")
    /\ (Contains(question_lower, "month") \/ Contains(question_lower, "monthly"))

IsTopProduct(question_lower) ==
    /\ Contains(question_lower, "top")
    /\ Contains(question_lower, "product")
    /\ Contains(question_lower, "revenue")

IsMonthlySales(question_lower) ==
    Contains(question_lower, "sales by month") \/ Contains(question_lower, "monthly sales")

IsLowStock(question_lower) ==
    Contains(question_lower, "low stock") \/ Contains(question_lower, "reorder")

\* get_predefined_query with the low-stock test moved to the front of the chain
get_predefined_query_LowStockFirst(question) ==
    LET question_lower == Lower(question)
    IN  IF IsLowStock(question_lower) THEN Some(LowStockQuery)
        ELSE IF IsBestSeller(question_lower) THEN Some(BestSellerQuery)
        ELSE IF IsTopProduct(question_lower) THEN Some(TopProductQuery)
        ELSE IF IsMonthlySales(question_lower) THEN Some(MonthlySalesQuery)
        ELSE None

get_predefined_query(question) ==
    LET question_lower == Lower(question)
    IN  IF IsBestSeller(question_lower) THEN Some(BestSellerQuery)
        ELSE IF IsTopProduct(question_lower) THEN Some(TopProductQuery)
        ELSE IF IsMonthlySales(question_lower) THEN Some(MonthlySalesQuery)
        ELSE IF IsLowStock(question_lower) THEN Some(LowStockQuery)
        ELSE None

(***************************************************************************)
(* _generate_sql_query: cleanup and validation of the model's reply        *)
(***************************************************************************)
Fence == "^^^"

prefixes_to_remove ==
    << "Here is the SQL query:",
       "Here's the SQL query:",
       "SQL Query:",
       "The SQL query is:",
       "Query:",
       "SQL:",
       "Here is",
       "Here's" >>

\* for prefix in prefixes_to_remove[i..]: strip it when the text starts with it
RECURSIVE RemovePrefixes(_, _)
RemovePrefixes(s, i) ==
    IF i > Len(prefixes_to_remove) THEN s
    ELSE IF StartsWith(Lower(s), Lower(prefixes_to_remove[i]))
    THEN RemovePrefixes(Strip(Drop(s, Len(prefixes_to_remove[i]))), i + 1)
    ELSE RemovePrefixes(s, i + 1)

OtherKeywords == {"WITH", "CREATE", "INSERT", "UPDATE", "DELETE"}

SqlCommands == {"SELECT"} \cup OtherKeywords

\* the test that lets a line through once found_select is FALSE
OpensStatement(line) ==
    \/ StartsWith(Upper(line), "SELECT")
    \/ \E keyword \in OtherKeywords : Contains(Upper(line), keyword)

\* KeepSqlLines with "line = line.strip()" left out
RECURSIVE KeepSqlLines_NoStrip(_, _)
KeepSqlLines_NoStrip(lines, found_select) ==
    IF lines = <<>> THEN <<>>
    ELSE LET line == Head(lines)
         IN  IF found_select \/ OpensStatement(Strip(line))
             THEN <<line>> \o KeepSqlLines_NoStrip(Tail(lines), TRUE)
             ELSE KeepSqlLines_NoStrip(Tail(lines), FALSE)

\* the loop over lines: each line stripped; lines dropped until found_select
RECURSIVE KeepSqlLines(_, _)
KeepSqlLines(lines, found_select) ==
    IF lines = <<>> THEN <<>>
    ELSE LET line == Strip(Head(lines))
         IN  IF found_select \/ OpensStatement(line)
             THEN <<line>> \o KeepSqlLines(Tail(lines), TRUE)
             ELSE KeepSqlLines(Tail(lines), FALSE)

\* StartsWithSqlCommand with the arguments of startswith exchanged
StartsWithSqlCommand_Reversed(sql_query) ==
    \E cmd \in SqlCommands : StartsWith(cmd, Upper(sql_query))

StartsWithSqlCommand(sql_query) ==
    \E cmd \in SqlCommands : StartsWith(Upper(sql_query), cmd)

\* RemoveFences without the second re.sub, the one for a bare fence
RemoveFences_SqlFenceOnly(content) ==
    ReSubFence(Fence \o "sql", Strip(content))

\* the two re.sub calls on the stripped content
RemoveFences(content) ==
    ReSubFence(Fence, ReSubFence(Fence \o "sql", Strip(content)))

\* the text the loop over lines starts from
WithoutFencesAndPrefixes(content) == RemovePrefixes(RemoveFences(content), 1)

\* everything between response.content and the validation
CleanResponse(content) ==
    LET sql_query == WithoutFencesAndPrefixes(content)
        sql_lines == KeepSqlLines(SplitLines(sql_query), FALSE)
    IN  Strip(IF sql_lines # <<>> THEN JoinLines(sql_lines) ELSE sql_query)

\* the outcome of a call: a returned value or a raised exception's text
Return(v) == [ok |-> TRUE, value |-> v]

Raise(msg) == [ok |-> FALSE, value |-> msg]

\* llm.invoke(prompt): the reply's content, or an exception
Content(text) == [raised |-> FALSE, text |-> text]

Raised(msg) == [raised |-> TRUE, text |-> msg]

\* generate_from_model without the validation of the cleaned text
generate_from_model_NoValidation(reply) ==
    IF reply.raised
    THEN Raise("Error generating SQL query: " \o reply.text)
    ELSE Return(CleanResponse(reply.text))

\* the try block of _generate_sql_query, given what llm.invoke does
generate_from_model(reply) ==
    IF reply.raised
    THEN Raise("Error generating SQL query: " \o reply.text)
    ELSE LET sql_query == CleanResponse(reply.text)
         IN  IF ~StartsWithSqlCommand(sql_query)
             THEN Raise("Error generating SQL query: "
                        \o "Generated query doesn't start with a valid SQL command")
             ELSE Return(sql_query)

\* generate_sql_query returning the predefined statement as it is written
generate_sql_query_NoStrip(question, reply) ==
    LET predefined == get_predefined_query(question)
    IN  IF Truthy(predefined)
        THEN [out |-> Return(predefined.val), invoked |-> FALSE]
        ELSE [out |-> generate_from_model(reply), invoked |-> TRUE]

\* generate_sql_query asking the model first and falling back on the
\* predefined statement
generate_sql_query_ModelFirst(question, reply) ==
    LET predefined == get_predefined_query(question)
        generated == generate_from_model(reply)
    IN  IF generated.ok \/ ~Truthy(predefined)
        THEN [out |-> generated, invoked |-> TRUE]
        ELSE [out |-> Return(Strip(predefined.val)), invoked |-> TRUE]

\* _generate_sql_query; invoked tells whether llm.invoke was called
generate_sql_query(question, reply) ==
    LET predefined == get_predefined_query(question)
    IN  IF Truthy(predefined)
        THEN [out |-> Return(Strip(predefined.val)), invoked |-> FALSE]
        ELSE [out |-> generate_from_model(reply), invoked |-> TRUE]

(***************************************************************************)
(* _execute_query                                                          *)
(***************************************************************************)
\* SQLite values
NullVal == [t |-> "null", v |-> 0]

IntVal(n) == [t |-> "int", v |-> n]

TextVal(x) == [t |-> "text", v |-> x]

Digits == "0123456789"

\* str(n) for a natural number
RECURSIVE StrNat(_)
StrNat(n) ==
    IF n < 10 THEN CharAt(Digits, n + 1)
    ELSE StrNat(n \div 10) \o CharAt(Digits, (n % 10) + 1)

\* repr of a value of a row
ReprValue(x) ==
    IF x.t = "null" THEN "None"
    ELSE IF x.t = "int" THEN StrNat(x.v)
    ELSE "'" \o x.v \o "'"

\* a dict is its keys in insertion order and the value of each key
EmptyDict == [keys |-> <<>>, get |-> <<>>]

DictSet(d, k, x) ==
    [keys |-> IF \E i \in 1..Len(d.keys) : d.keys[i] = k THEN d.keys ELSE Append(d.keys, k),
     get  |-> [j \in (DOMAIN d.get) \cup {k} |-> IF j = k THEN x ELSE d.get[j]]]

\* row[k] for a sqlite3.Row: the value of the first column named k
RowGet(names, row, k) ==
    row[CHOOSE i \in 1..Len(names) : names[i] = k /\ \A j \in 1..(i - 1) : names[j] # k]

\* d[k] = row[k] for each k of row.keys(), from the i-th on
RECURSIVE DictFrom(_, _, _, _)
DictFrom(names, row, i, d) ==
    IF i > Len(names) THEN d
    ELSE DictFrom(names, row, i + 1, DictSet(d, names[i], RowGet(names, row, names[i])))

\* dict(row) for a sqlite3.Row: the description's names paired with the values
DictOfRow(names, row, d) == DictFrom(names, row, 1, d)

RECURSIVE ReprItems(_, _)
ReprItems(d, i) ==
    IF i > Len(d.keys) THEN ""
    ELSE (IF i > 1 THEN ", " ELSE "")
         \o "'" \o d.keys[i] \o "': " \o ReprValue(d.get[d.keys[i]])
         \o ReprItems(d, i + 1)

ReprDict(d) == "{" \o ReprItems(d, 1) \o "}"

RECURSIVE ReprListFrom(_, _)
ReprListFrom(ds, i) ==
    IF i > Len(ds) THEN ""
    ELSE (IF i > 1 THEN ", " ELSE "") \o ReprDict(ds[i]) \o ReprListFrom(ds, i + 1)

\* repr of a list of dicts
ReprList(ds) == "[" \o ReprListFrom(ds, 1) \o "]"

\* What the store does with one statement on a fresh connection:
\*   at "connect"  sqlite3.connect raises sqlite3.Error, no connection exists;
\*   at "execute"  cursor.execute or fetchall raises, sqlite says whether the
\*                 exception is a sqlite3.Error;
\*   at "done"     the cursor holds description (None when the statement
\*                 yields no columns) and rows.
\* writes tells whether the statement changed rows or tables before that.
DbFails(at, sqlite, msg, writes) ==
    [at |-> at, sqlite |-> sqlite, msg |-> msg, description |-> None, rows |-> <<>>,
     writes |-> writes]

DbRows(description, rows, writes) ==
    [at |-> "done", sqlite |-> FALSE, msg |-> "", description |-> description, rows |-> rows,
     writes |-> writes]

\* cursor.execute begins a transaction before INSERT, UPDATE, DELETE and
\* REPLACE; the writes of any other statement are committed as it runs
BeginsTransaction(sql_query) ==
    Upper(FirstWord(LStrip(sql_query))) \in {"INSERT", "UPDATE", "DELETE", "REPLACE"}

\* execute_query with a commit added to the handler of sqlite3.Error
execute_query_CommitsOnError(sql_query, db) ==
    IF db.at = "connect"
    THEN [out |-> Raise("Database error: " \o db.msg), conn |-> "none", committed |-> FALSE]
    ELSE IF db.at = "execute"
    THEN [out  |-> Raise((IF db.sqlite THEN "Database error: "
                                       ELSE "Query execution error: ") \o db.msg),
          conn |-> "open", committed |-> db.writes]
    ELSE LET columns == IF db.description.some THEN db.description.val ELSE <<>>
             results == [i \in 1..Len(db.rows) |-> DictOfRow(columns, db.rows[i], EmptyDict)]
         IN  [out |-> Return([results |-> results, columns |-> columns]), conn |-> "closed",
              committed |-> db.writes /\ ~BeginsTransaction(sql_query)]

\* execute_query raising without the text of the exception it caught
execute_query_DropsMessage(sql_query, db) ==
    IF db.at = "connect"
    THEN [out |-> Raise("Database error"), conn |-> "none", committed |-> FALSE]
    ELSE IF db.at = "execute"
    THEN [out  |-> Raise(IF db.sqlite THEN "Database error" ELSE "Query execution error"),
          conn |-> "open", committed |-> FALSE]
    ELSE LET columns == IF db.description.some THEN db.description.val ELSE <<>>
             results == [i \in 1..Len(db.rows) |-> DictOfRow(columns, db.rows[i], EmptyDict)]
         IN  [out |-> Return([results |-> results, columns |-> columns]), conn |-> "closed",
              committed |-> db.writes /\ ~BeginsTransaction(sql_query)]

\* execute_query with conn.commit() before conn.close()
execute_query_CommitsOnSuccess(sql_query, db) ==
    IF db.at = "connect"
    THEN [out |-> Raise("Database error: " \o db.msg), conn |-> "none", committed |-> FALSE]
    ELSE IF db.at = "execute"
    THEN [out  |-> Raise((IF db.sqlite THEN "Database error: "
                                       ELSE "Query execution error: ") \o db.msg),
          conn |-> "open", committed |-> FALSE]
    ELSE LET columns == IF db.description.some THEN db.description.val ELSE <<>>
             results == [i \in 1..Len(db.rows) |-> DictOfRow(columns, db.rows[i], EmptyDict)]
         IN  [out |-> Return([results |-> results, columns |-> columns]), conn |-> "closed",
              committed |-> db.writes]

\* _execute_query; conn is the state its connection is left in, committed
\* tells whether the writes of the statement reached the store: there is no
\* conn.commit(), so they do only when no transaction was begun for them
execute_query(sql_query, db) ==
    IF db.at = "connect"
    THEN [out |-> Raise("Database error: " \o db.msg), conn |-> "none", committed |-> FALSE]
    ELSE IF db.at = "execute"
    THEN [out  |-> Raise((IF db.sqlite THEN "Database error: "
                                       ELSE "Query execution error: ") \o db.msg),
          conn |-> "open", committed |-> FALSE]
    ELSE LET columns == IF db.description.some THEN db.description.val ELSE <<>>
             results == [i \in 1..Len(db.rows) |-> DictOfRow(columns, db.rows[i], EmptyDict)]
         IN  [out |-> Return([results |-> results, columns |-> columns]), conn |-> "closed",
              committed |-> db.writes /\ ~BeginsTransaction(sql_query)]

(***************************************************************************)
(* _interpret_results                                                      *)
(***************************************************************************)
\* str of a value, as an f-string formats row[col]
StrValue(v) ==
    IF v.t = "null" THEN "None"
    ELSE IF v.t = "int" THEN StrNat(v.v)
    ELSE v.v

\* " | ".join([f"{col}: {row[col]}" for col in columns])
RECURSIVE RenderRow(_, _, _)
RenderRow(row, columns, i) ==
    IF i > Len(columns) THEN ""
    ELSE (IF i > 1 THEN " | " ELSE "")
         \o columns[i] \o ": " \o StrValue(row.get[columns[i]])
         \o RenderRow(row, columns, i + 1)

\* the loop over a small result set: a newline, the number, the row
RECURSIVE RenderAll(_, _, _)
RenderAll(results, columns, i) ==
    IF i > Len(results) THEN ""
    ELSE "\n" \o StrNat(i) \o ". " \o RenderRow(results[i], columns, 1)
         \o RenderAll(results, columns, i + 1)

\* the loop over the head of a large result set: the number, the row, a newline
RECURSIVE RenderHead(_, _, _)
RenderHead(results, columns, i) ==
    IF i > Len(results) THEN ""
    ELSE StrNat(i) \o ". " \o RenderRow(results[i], columns, 1) \o "\n"
         \o RenderHead(results, columns, i + 1)

SmallResultSet == 10

HeadRows == 5

PreviewRows == 3

\* results[:n]
FirstRows(results, n) == SubSeq(results, 1, IF Len(results) < n THEN Len(results) ELSE n)

\* results_text with the head of the result set whatever its size
results_text_AlwaysHead(results, columns) ==
    "\nFound " \o StrNat(Len(results)) \o " records. Here are the first 5:\n"
    \o RenderHead(FirstRows(results, HeadRows), columns, 1)

results_text(results, columns) ==
    IF Len(results) <= SmallResultSet
    THEN RenderAll(results, columns, 1)
    ELSE "\nFound " \o StrNat(Len(results)) \o " records. Here are the first 5:\n"
         \o RenderHead(FirstRows(results, HeadRows), columns, 1)

\* the analysis prompt
analysis_prompt(question, results, columns) ==
    "\nYou are a business analyst. Interpret the following query results and provide insights.\n"
    \o "\nORIGINAL QUESTION: " \o question \o "\n"
    \o "\nQUERY RESULTS (" \o StrNat(Len(results)) \o " records):\n"
    \o results_text(results, columns) \o "\n"
    \o "\nINSTRUCTIONS:\n"
    \o "1. Provide a clear, concise summary of the findings\n"
    \o "2. Highlight key insights and trends\n"
    \o "3. Use business language, not technical jargon\n"
    \o "4. Include specific numbers and percentages where relevant\n"
    \o "5. Suggest actionable recommendations if appropriate\n"
    \o "6. Keep response under 200 words\n"
    \o "\nBUSINESS ANALYSIS:\n"

\* the fallback with every row of the result set in it
interpretation_failed_AllRows(e, results) ==
    "Results found but interpretation failed: " \o e
    \o "\n\nRaw results: " \o ReprList(results) \o "..."

\* the text returned when llm.invoke raised e
interpretation_failed(e, results) ==
    "Results found but interpretation failed: " \o e
    \o "\n\nRaw results: " \o ReprList(FirstRows(results, PreviewRows)) \o "..."

\* interpret_results sending the prompt before it looks at the result set
interpret_results_AlwaysInvokes(question, results, columns, reply) ==
    [text    |-> IF reply.raised THEN interpretation_failed(reply.text, results)
                 ELSE Strip(reply.text),
     invoked |-> TRUE,
     prompt  |-> Some(analysis_prompt(question, results, columns))]

\* reply is what llm.invoke does when it is called; prompt is what it is
\* called with
interpret_results(question, results, columns, reply) ==
    IF results = <<>>
    THEN [text |-> "No data found for your query.", invoked |-> FALSE, prompt |-> None]
    ELSE [text    |-> IF reply.raised THEN interpretation_failed(reply.text, results)
                      ELSE Strip(reply.text),
          invoked |-> TRUE,
          prompt  |-> Some(analysis_prompt(question, results, columns))]

(***************************************************************************)
(* answer_question: the records it returns                                 *)
(***************************************************************************)
\* the success record counting the columns in place of the rows
SuccessRecord_CountsColumns(question, sql_query, results, columns, analysis) ==
    [success      |-> TRUE,
     question     |-> question,
     sql_query    |-> Some(sql_query),
     results      |-> results,
     columns      |-> columns,
     analysis     |-> analysis,
     record_count |-> Len(columns)]

SuccessRecord(question, sql_query, results, columns, analysis) ==
    [success      |-> TRUE,
     question     |-> question,
     sql_query    |-> Some(sql_query),
     results      |-> results,
     columns      |-> columns,
     analysis     |-> analysis,
     record_count |-> Len(results)]

\* the failure record with an apology that does not quote the error
FailureRecord_GenericApology(question, e) ==
    [success      |-> FALSE,
     question     |-> question,
     error        |-> e,
     sql_query    |-> None,
     results      |-> <<>>,
     columns      |-> <<>>,
     analysis     |-> "Sorry, I couldn't process your question.",
     record_count |-> 0]

\* the failure record without its error key
FailureRecord_NoErrorKey(question, e) ==
    [success      |-> FALSE,
     question     |-> question,
     sql_query    |-> None,
     results      |-> <<>>,
     columns      |-> <<>>,
     analysis     |-> "Sorry, I couldn't process your question: " \o e,
     record_count |-> 0]

FailureRecord(question, e) ==
    [success      |-> FALSE,
     question     |-> question,
     error        |-> e,
     sql_query    |-> None,
     results      |-> <<>>,
     columns      |-> <<>>,
     analysis     |-> "Sorry, I couldn't process your question: " \o e,
     record_count |-> 0]

(***************************************************************************)
(* Inputs                                                                  *)
(***************************************************************************)
NumRequests == 1
MaxPhrases == 2
MaxChunks == 3
MaxRows == 12
NumCallers == 2
MaxReruns == 3

Requests == 1..NumRequests

\* the callers that share one agent
Callers == 1..NumCallers

\* every text made of 1..n of the parts, sep between them
RECURSIVE Concats(_, _, _)
Concats(parts, sep, n) ==
    IF n <= 1 THEN parts
    ELSE LET shorter == Concats(parts, sep, n - 1)
         IN  shorter \cup {a \o sep \o b : a \in shorter, b \in parts}

\* questions: the samples of get_sample_questions and test_ai_agent, and
\* every question made of at most MaxPhrases of the phrases
LowInStockQuestion == "What products are low in stock across all warehouses?"

OrderStatusQuestion == "How many orders do we have in each status?"

LowStockQuestion == "Which LOW STOCK items need a reorder?"

SampleQuestions ==
    { LowInStockQuestion,
      OrderStatusQuestion,
      "Show me total sales by month for this year",
      LowStockQuestion }

Phrases ==
    { "Best Seller", "per month", "Top product", "revenue", "Monthly Sales",
      "sales by month", "Low Stock", "reorder", "low in stock", "orders" }

Questions == SampleQuestions \cup Concats(Phrases, " ", MaxPhrases)

\* replies of the model to the query prompt: the scenario of the spec, fenced
\* blocks around a statement, and every text made of at most MaxChunks chunks
ScenarioOutput == "Here's the SQL query:\n^^^sql\nSELECT 1\n^^^"

Statements ==
    { "SELECT 1",
      "SELECT a\n  FROM t",
      "with c as (select 1)\nselect * from c",
      "CREATE TABLE t (a)",
      "INSERT INTO t VALUES (1)",
      "UPDATE t SET a = 1 \n",
      "DELETE FROM t" }

FencedBlocks ==
    {open \o stmt \o "\n" \o Fence : open \in {Fence \o "sql\n", Fence \o "\n"}, stmt \in Statements}

Chunks ==
    { Fence \o "sql", Fence, "^", "\n", "SQL:", "SELECT 1", "Go with:", "Updated", " FROM t" }

ModelOutputs == {"", ScenarioOutput} \cup FencedBlocks \cup Concats(Chunks, "", MaxChunks)

LlmErrors == {"Connection error."}

ModelReplies == {Content(t) : t \in ModelOutputs} \cup {Raised(e) : e \in LlmErrors}

SampleReplies ==
    {Content(t) : t \in {ScenarioOutput, "SELECT * FROM nope", "", " \n", "I cannot answer that.",
                         "DELETE FROM t", "CREATE TABLE t (a)"}}
    \cup {Raised(e) : e \in LlmErrors}

\* replies of the model to the analysis prompt
AnalysisReplies == {Content(" Stock is low. \n")} \cup {Raised(e) : e \in LlmErrors}

\* what the store may do with a statement
StockColumns == <<"product_name", "quantity_on_hand">>

StockRows(n) == [i \in 1..n |-> <<TextVal("Widget"), IntVal(i)>>]

\* a statement that is rejected, or fails after it has written
DbFailures ==
    { DbFails("connect", TRUE, "unable to open database file", FALSE),
      DbFails("execute", TRUE, "no such table: nope", FALSE),
      DbFails("execute", TRUE, "UNIQUE constraint failed: t.a", TRUE),
      DbFails("execute", FALSE, "You can only execute one statement at a time.", FALSE) }

\* a statement that yields no columns, with and without writes, and one
\* whose two columns have the same name and whose row holds a NULL
DbOddities ==
    { DbRows(None, <<>>, FALSE),
      DbRows(None, <<>>, TRUE),
      DbRows(Some(<<"a", "a">>), <<<<IntVal(1), NullVal>>>>, FALSE) }

DbReplies ==
    {DbRows(Some(StockColumns), StockRows(n), FALSE) : n \in 0..MaxRows}
    \cup DbOddities \cup DbFailures

SampleDbReplies ==
    {DbRows(Some(StockColumns), StockRows(n), FALSE) : n \in 0..1}
    \cup DbOddities \cup DbFailures

(***************************************************************************)
(* State                                                                   *)
(***************************************************************************)
VARIABLES
    pc,          \* where each request is: idle, generate, execute, interpret, done
    question,    \* the question of each request
    response,    \* what llm.invoke did for the query prompt, None when not called
    gen_calls,   \* calls of llm.invoke for the query prompt
    sql_query,   \* the synthesized query, None when there is none
    conn,        \* the connection of _execute_query: none, open, closed
    executed,    \* what _execute_query returned: results and columns
    narr_calls,  \* calls of llm.invoke for the analysis prompt
    record,      \* the record answer_question returned, <<>> before it returns
    db_calls,    \* calls of cursor.execute
    db_reply,    \* what the store did with the statement, NoDb before it is asked
    narration,   \* what llm.invoke did for the analysis prompt
    prompt,      \* the analysis prompt llm.invoke was called with, None when not called
    store,       \* the statements whose writes are committed in the store
    agent,       \* the fields of the BusinessAIAgent, NoAgent while there is none
    constructions, \* calls of BusinessAIAgent()
    reruns,      \* runs of the dashboard script so far
    page,        \* where the run of the dashboard script is
    stats,       \* what get_database_stats returned, NoStats before it is called
    stats_conn,  \* the connection of get_database_stats: none, open, closed
    main_agent   \* what initialize_agent returned to main, NoAgent for None

\* the state of the dashboard besides the agent of its session
dashboard == <<constructions, reruns, page, stats, stats_conn, main_agent>>

vars ==
    <<pc, question, response, gen_calls, sql_query, conn, executed, narr_calls, record,
      db_calls, db_reply, narration, prompt, store, agent, dashboard>>

NoReply == [raised |-> FALSE, text |-> "", called |-> FALSE]

Called(reply) == [raised |-> reply.raised, text |-> reply.text, called |-> TRUE]

NoResults == [results |-> <<>>, columns |-> <<>>]

NoDb == [at |-> "none", sqlite |-> FALSE, msg |-> "", description |-> None, rows |-> <<>>,
         writes |-> FALSE]

NoAgent == [made |-> FALSE, db_path |-> "", llm |-> "", db_schema |-> ""]

\* BusinessAIAgent(): __init__ with the GROQ_API_KEY of the environment, ""
\* when there is none
BusinessAIAgent(groq_api_key) ==
    IF groq_api_key = ""
    THEN Raise("GROQ_API_KEY not found in environment variables")
    ELSE Return([made      |-> TRUE,
                 db_path   |-> "inventory_sales.db",
                 llm       |-> "ChatGroq(llama3-8b-8192, " \o groq_api_key \o ")",
                 db_schema |-> "\nDATABASE SCHEMA INFORMATION:\n"])

ApiKey == "gsk_key"

\* what the store does for get_database_stats: whether sqlite3.connect
\* succeeds, and which of the queries pd.read_sql fails on, 0 for none
StatsDb(connects, failing) == [connects |-> connects, failing |-> failing]

NoStats == [called |-> FALSE, db |-> StatsDb(TRUE, 0), value |-> EmptyDict, error |-> None]

\* no call of answer_question has started among the requests rs
NoCalls(rs) ==
    /\ pc = [r \in rs |-> "idle"]
    /\ question = [r \in rs |-> ""]
    /\ response = [r \in rs |-> NoReply]
    /\ gen_calls = [r \in rs |-> 0]
    /\ sql_query = [r \in rs |-> None]
    /\ conn = [r \in rs |-> "none"]
    /\ executed = [r \in rs |-> NoResults]
    /\ narr_calls = [r \in rs |-> 0]
    /\ record = [r \in rs |-> <<>>]
    /\ db_calls = [r \in rs |-> 0]
    /\ db_reply = [r \in rs |-> NoDb]
    /\ narration = [r \in rs |-> NoReply]
    /\ prompt = [r \in rs |-> None]

\* no dashboard script has run
NoDashboard ==
    /\ reruns = 0
    /\ page = "idle"
    /\ stats = NoStats
    /\ stats_conn = "none"
    /\ main_agent = NoAgent

\* an agent has been constructed and none of its requests has started
Init ==
    /\ NoCalls(Requests)
    /\ store = {}
    /\ agent = BusinessAIAgent(ApiKey).value
    /\ constructions = 1
    /\ NoDashboard

(***************************************************************************)
(* answer_question, one action per stage                                   *)
(***************************************************************************)
\* a caller calls answer_question(q)
AnswerQuestion(r, questions) ==
    /\ pc[r] = "idle"
    /\ \E q \in questions :
          /\ question' = [question EXCEPT ![r] = q]
          /\ pc' = [pc EXCEPT ![r] = "generate"]
    /\ UNCHANGED <<response, gen_calls, sql_query, conn, executed, narr_calls, record,
                   db_calls, db_reply, narration, prompt, store>>
    /\ UNCHANGED <<agent, dashboard>>

\* answer_question going on to _execute_query after _generate_sql_query raised
GenerateSqlQuery_ContinuesOnFailure(r, replies) ==
    /\ pc[r] = "generate"
    /\ \E reply \in replies :
          LET g == generate_sql_query(question[r], reply)
          IN  /\ response' = [response EXCEPT ![r] = IF g.invoked THEN Called(reply) ELSE NoReply]
              /\ gen_calls' = [gen_calls EXCEPT ![r] = @ + (IF g.invoked THEN 1 ELSE 0)]
              /\ sql_query' = [sql_query EXCEPT ![r] = IF g.out.ok THEN Some(g.out.value) ELSE @]
              /\ pc' = [pc EXCEPT ![r] = "execute"]
              /\ UNCHANGED record
    /\ UNCHANGED <<question, conn, executed, narr_calls, db_calls, db_reply, narration,
                   prompt, store>>
    /\ UNCHANGED <<agent, dashboard>>

\* answer_question calling _generate_sql_query again after it raised
GenerateSqlQuery_Retries(r, replies) ==
    /\ pc[r] = "generate"
    /\ \E reply \in replies :
          LET g == generate_sql_query(question[r], reply)
          IN  /\ response' = [response EXCEPT ![r] = IF g.invoked THEN Called(reply) ELSE NoReply]
              /\ gen_calls' = [gen_calls EXCEPT ![r] = @ + (IF g.invoked THEN 1 ELSE 0)]
              /\ sql_query' = [sql_query EXCEPT ![r] = IF g.out.ok THEN Some(g.out.value) ELSE @]
              /\ pc' = [pc EXCEPT ![r] = IF g.out.ok THEN "execute" ELSE "generate"]
              /\ UNCHANGED record
    /\ UNCHANGED <<question, conn, executed, narr_calls, db_calls, db_reply, narration,
                   prompt, store>>
    /\ UNCHANGED <<agent, dashboard>>

\* Step 1: _generate_sql_query; an exception ends the request in the except branch
GenerateSqlQuery(r, replies) ==
    /\ pc[r] = "generate"
    /\ \E reply \in replies :
          LET g == generate_sql_query(question[r], reply)
          IN  /\ response' = [response EXCEPT ![r] = IF g.invoked THEN Called(reply) ELSE NoReply]
              /\ gen_calls' = [gen_calls EXCEPT ![r] = @ + (IF g.invoked THEN 1 ELSE 0)]
              /\ IF g.out.ok
                 THEN /\ sql_query' = [sql_query EXCEPT ![r] = Some(g.out.value)]
                      /\ pc' = [pc EXCEPT ![r] = "execute"]
                      /\ UNCHANGED record
                 ELSE /\ record' = [record EXCEPT ![r] = FailureRecord(question[r], g.out.value)]
                      /\ pc' = [pc EXCEPT ![r] = "done"]
                      /\ UNCHANGED sql_query
    /\ UNCHANGED <<question, conn, executed, narr_calls, db_calls, db_reply, narration,
                   prompt, store>>
    /\ UNCHANGED <<agent, dashboard>>

\* a SELECT writes nothing
ReadsOnly(statement) == Upper(FirstWord(LStrip(statement))) = "SELECT"

\* _execute_query keeping its connection in a field that all calls share
ExecuteQuery_SharedConnection(r, dbs) ==
    /\ pc[r] = "execute"
    /\ \E db \in dbs :
          LET x == execute_query(sql_query[r].val, db)
          IN  /\ db.writes => ~ReadsOnly(sql_query[r].val)
              /\ conn' = [q \in DOMAIN conn |-> x.conn]
              /\ db_calls' = [db_calls EXCEPT ![r] = @ + (IF db.at = "connect" THEN 0 ELSE 1)]
              /\ db_reply' = [db_reply EXCEPT ![r] = db]
              /\ store' = IF x.committed THEN store \cup {sql_query[r].val} ELSE store
              /\ IF x.out.ok
                 THEN /\ executed' = [executed EXCEPT ![r] = x.out.value]
                      /\ pc' = [pc EXCEPT ![r] = "interpret"]
                      /\ UNCHANGED record
                 ELSE /\ record' = [record EXCEPT ![r] = FailureRecord(question[r], x.out.value)]
                      /\ pc' = [pc EXCEPT ![r] = "done"]
                      /\ UNCHANGED executed
    /\ UNCHANGED <<question, response, gen_calls, sql_query, narr_calls, narration, prompt>>
    /\ UNCHANGED <<agent, dashboard>>

\* answer_question reporting the statement that failed in its failure record
ExecuteQuery_ReportsStatement(r, dbs) ==
    /\ pc[r] = "execute"
    /\ \E db \in dbs :
          LET x == execute_query(sql_query[r].val, db)
          IN  /\ db.writes => ~ReadsOnly(sql_query[r].val)
              /\ conn' = [conn EXCEPT ![r] = x.conn]
              /\ db_calls' = [db_calls EXCEPT ![r] = @ + (IF db.at = "connect" THEN 0 ELSE 1)]
              /\ db_reply' = [db_reply EXCEPT ![r] = db]
              /\ store' = IF x.committed THEN store \cup {sql_query[r].val} ELSE store
              /\ IF x.out.ok
                 THEN /\ executed' = [executed EXCEPT ![r] = x.out.value]
                      /\ pc' = [pc EXCEPT ![r] = "interpret"]
                      /\ UNCHANGED record
                 ELSE /\ record' = [record EXCEPT ![r] =
                                       [FailureRecord(question[r], x.out.value)
                                          EXCEPT !.sql_query = sql_query[r]]]
                      /\ pc' = [pc EXCEPT ![r] = "done"]
                      /\ UNCHANGED executed
    /\ UNCHANGED <<question, response, gen_calls, sql_query, narr_calls, narration, prompt>>
    /\ UNCHANGED <<agent, dashboard>>

\* answer_question calling _execute_query again for as long as it raises;
\* db_calls counts the first call only
ExecuteQuery_RetriesOnError(r, dbs) ==
    /\ pc[r] = "execute"
    /\ \E db \in dbs :
          LET x == execute_query(sql_query[r].val, db)
          IN  /\ db.writes => ~ReadsOnly(sql_query[r].val)
              /\ conn' = [conn EXCEPT ![r] = x.conn]
              /\ db_calls' = [db_calls EXCEPT ![r] = IF db.at = "connect" THEN @ ELSE 1]
              /\ db_reply' = [db_reply EXCEPT ![r] = db]
              /\ store' = IF x.committed THEN store \cup {sql_query[r].val} ELSE store
              /\ IF x.out.ok
                 THEN /\ executed' = [executed EXCEPT ![r] = x.out.value]
                      /\ pc' = [pc EXCEPT ![r] = "interpret"]
                      /\ UNCHANGED record
                 ELSE UNCHANGED <<pc, record, executed>>
    /\ UNCHANGED <<question, response, gen_calls, sql_query, narr_calls, narration, prompt>>
    /\ UNCHANGED <<agent, dashboard>>

\* Step 2: _execute_query; an exception ends the request in the except branch
ExecuteQuery(r, dbs) ==
    /\ pc[r] = "execute"
    /\ \E db \in dbs :
          LET x == execute_query(sql_query[r].val, db)
          IN  /\ db.writes => ~ReadsOnly(sql_query[r].val)
              /\ conn' = [conn EXCEPT ![r] = x.conn]
              /\ db_calls' = [db_calls EXCEPT ![r] = @ + (IF db.at = "connect" THEN 0 ELSE 1)]
              /\ db_reply' = [db_reply EXCEPT ![r] = db]
              /\ store' = IF x.committed THEN store \cup {sql_query[r].val} ELSE store
              /\ IF x.out.ok
                 THEN /\ executed' = [executed EXCEPT ![r] = x.out.value]
                      /\ pc' = [pc EXCEPT ![r] = "interpret"]
                      /\ UNCHANGED record
                 ELSE /\ record' = [record EXCEPT ![r] = FailureRecord(question[r], x.out.value)]
                      /\ pc' = [pc EXCEPT ![r] = "done"]
                      /\ UNCHANGED executed
    /\ UNCHANGED <<question, response, gen_calls, sql_query, narr_calls, narration, prompt>>
    /\ UNCHANGED <<agent, dashboard>>

\* Step 3: _interpret_results, and the return of the success record
InterpretResults(r) ==
    /\ pc[r] = "interpret"
    /\ \E reply \in AnalysisReplies :
          LET a == interpret_results(question[r], executed[r].results, executed[r].columns, reply)
          IN  /\ narr_calls' = [narr_calls EXCEPT ![r] = @ + (IF a.invoked THEN 1 ELSE 0)]
              /\ narration' = [narration EXCEPT ![r] = IF a.invoked THEN Called(reply) ELSE NoReply]
              /\ prompt' = [prompt EXCEPT ![r] = a.prompt]
              /\ record' = [record EXCEPT ![r] =
                               SuccessRecord(question[r], sql_query[r].val, executed[r].results,
                                             executed[r].columns, a.text)]
              /\ pc' = [pc EXCEPT ![r] = "done"]
    /\ UNCHANGED <<question, response, gen_calls, sql_query, conn, executed, db_calls,
                   db_reply, store>>
    /\ UNCHANGED <<agent, dashboard>>

Next ==
    \E r \in Requests :
       \/ AnswerQuestion(r, SampleQuestions)
       \/ GenerateSqlQuery(r, SampleReplies)
       \/ ExecuteQuery(r, SampleDbReplies)
       \/ InterpretResults(r)

Spec == Init /\ [][Next]_vars

\* _get_predefined_query and the fast path, over every question
NextFastPath ==
    \/ AnswerQuestion(1, Questions)
    \/ GenerateSqlQuery(1, SampleReplies)

SpecFastPath == Init /\ [][NextFastPath]_vars

\* the model path of _generate_sql_query, over every reply of the model
NextCleanup ==
    \/ AnswerQuestion(1, {OrderStatusQuestion, LowStockQuestion})
    \/ GenerateSqlQuery(1, ModelReplies)

SpecCleanup == Init /\ [][NextCleanup]_vars

\* _execute_query and _interpret_results, over every result set
NextResults ==
    \/ AnswerQuestion(1, {OrderStatusQuestion, LowStockQuestion})
    \/ GenerateSqlQuery(1, {Content(ScenarioOutput), Content("DELETE FROM t")})
    \/ ExecuteQuery(1, DbReplies)
    \/ InterpretResults(1)

SpecResults == Init /\ [][NextResults]_vars

\* SpecResults when every call of the model and of the store returns or
\* raises: a stage that can take a step eventually takes one.  For
\* _generate_sql_query weak fairness is written out with the guard of the
\* stage where WF has ENABLED: the model always has a reply, so the stage can
\* take a step exactly when the request is at it.
SpecResultsFair ==
    /\ Init
    /\ [][NextResults]_vars
    /\ \/ []<>(pc[1] # "generate")
       \/ []<><<GenerateSqlQuery(1, {Content(ScenarioOutput), Content("DELETE FROM t")})>>_vars
    /\ WF_vars(ExecuteQuery(1, DbReplies))
    /\ WF_vars(InterpretResults(1))

\* several callers of answer_question on one agent, their steps interleaved
InitCallers ==
    /\ NoCalls(Callers)
    /\ store = {}
    /\ agent = BusinessAIAgent(ApiKey).value
    /\ constructions = 1
    /\ NoDashboard

CallerQuestions == {OrderStatusQuestion, LowStockQuestion}

CallerReplies == {Content("SELECT 1"), Content("CREATE TABLE t (a)"), Raised("Connection error.")}

CallerDbReplies ==
    { DbRows(Some(StockColumns), StockRows(1), FALSE),
      DbRows(None, <<>>, TRUE),
      DbFails("execute", TRUE, "no such table: nope", FALSE) }

NextCallers ==
    \E r \in Callers :
       \/ AnswerQuestion(r, CallerQuestions)
       \/ GenerateSqlQuery(r, CallerReplies)
       \/ ExecuteQuery(r, CallerDbReplies)
       \/ InterpretResults(r)

SpecCallers == InitCallers /\ [][NextCallers]_vars

(***************************************************************************)
(* The dashboard: initialize_agent, get_database_stats and main            *)
(***************************************************************************)
\* the six statistics: the key of stats, the statement given to pd.read_sql
\* and the column read from the frame it returns
StatsQueries ==
    << [key    |-> "total_products",
        sql    |-> "SELECT COUNT(*) as count FROM products WHERE is_active = 1",
        column |-> "count"],
       [key    |-> "total_customers",
        sql    |-> "SELECT COUNT(*) as count FROM customers",
        column |-> "count"],
       [key    |-> "total_orders",
        sql    |-> "SELECT COUNT(*) as count FROM sales_orders",
        column |-> "count"],
       [key    |-> "total_revenue",
        sql    |-> "SELECT COALESCE(SUM(total_amount), 0) as revenue FROM sales_orders WHERE order_status != 'Cancelled'",
        column |-> "revenue"],
       [key    |-> "pending_orders",
        sql    |-> "SELECT COUNT(*) as count FROM sales_orders WHERE order_status = 'Pending'",
        column |-> "count"],
       [key    |-> "low_stock",
        sql    |-> "SELECT COUNT(*) as count FROM inventory WHERE quantity_on_hand <= reorder_level",
        column |-> "low_stock"] >>

\* the name of the result column of a statement "SELECT <expr> as <name> ..."
RECURSIVE AliasOf(_)
AliasOf(sql) ==
    IF Len(sql) < 4 THEN ""
    ELSE IF StartsWith(sql, " as ") THEN FirstWord(Drop(sql, 4))
    ELSE AliasOf(Drop(sql, 1))

\* the columns of the frame pd.read_sql returns for a statement
FrameColumns(sql) == <<AliasOf(sql)>>

ReadSqlError == "Execution failed on sql: no such table"

ConnectError == "unable to open database file"

\* the try block from the i-th statistic on, stats holding the earlier ones
RECURSIVE StatsFrom(_, _, _)
StatsFrom(i, db, d) ==
    IF i > Len(StatsQueries)
    THEN [value |-> d, error |-> None, conn |-> "closed"]
    ELSE LET q == StatsQueries[i]
         IN  IF db.failing = i
             THEN [value |-> EmptyDict,
                   error |-> Some("Error getting database stats: " \o ReadSqlError),
                   conn  |-> "open"]
             ELSE IF \A j \in 1..Len(FrameColumns(q.sql)) : FrameColumns(q.sql)[j] # q.column
             THEN [value |-> EmptyDict,
                   error |-> Some("Error getting database stats: '" \o q.column \o "'"),
                   conn  |-> "open"]
             ELSE StatsFrom(i + 1, db, DictSet(d, q.key, i))

\* get_database_stats: the mapping it returns, the error it shows and the
\* state its connection is left in
get_database_stats(db) ==
    IF ~db.connects
    THEN [value |-> EmptyDict,
          error |-> Some("Error getting database stats: " \o ConnectError),
          conn  |-> "none"]
    ELSE StatsFrom(1, db, EmptyDict)

StatsDbReplies ==
    {StatsDb(TRUE, k) : k \in 0..Len(StatsQueries)} \cup {StatsDb(FALSE, 0)}

\* the environment of a construction: GROQ_API_KEY set, or missing
ApiKeys == {ApiKey, ""}

\* no agent in the session state and no script run yet
InitDashboard ==
    /\ NoCalls(Requests)
    /\ store = {}
    /\ agent = NoAgent
    /\ constructions = 0
    /\ NoDashboard

\* streamlit runs the script from its top: main starts, and the locals of
\* the run before are gone
RunScript ==
    /\ page \in {"idle", "stopped"}
    /\ reruns < MaxReruns
    /\ reruns' = reruns + 1
    /\ page' = "initialize"
    /\ main_agent' = NoAgent
    /\ pc' = [pc EXCEPT ![1] = "idle"]
    /\ question' = [question EXCEPT ![1] = ""]
    /\ response' = [response EXCEPT ![1] = NoReply]
    /\ gen_calls' = [gen_calls EXCEPT ![1] = 0]
    /\ sql_query' = [sql_query EXCEPT ![1] = None]
    /\ conn' = [conn EXCEPT ![1] = "none"]
    /\ executed' = [executed EXCEPT ![1] = NoResults]
    /\ narr_calls' = [narr_calls EXCEPT ![1] = 0]
    /\ record' = [record EXCEPT ![1] = <<>>]
    /\ db_calls' = [db_calls EXCEPT ![1] = 0]
    /\ db_reply' = [db_reply EXCEPT ![1] = NoDb]
    /\ narration' = [narration EXCEPT ![1] = NoReply]
    /\ prompt' = [prompt EXCEPT ![1] = None]
    /\ UNCHANGED <<store, agent, constructions, stats, stats_conn>>

\* initialize_agent constructing an agent on every run
InitializeAgent_AlwaysConstructs(keys) ==
    /\ page = "initialize"
    /\ \E groq_api_key \in keys :
          LET built == BusinessAIAgent(groq_api_key)
          IN  /\ constructions' = constructions + 1
              /\ IF built.ok
                 THEN /\ agent' = built.value
                      /\ main_agent' = built.value
                      /\ page' = "sidebar"
                 ELSE /\ main_agent' = NoAgent
                      /\ page' = "stopped"
                      /\ UNCHANGED agent
    /\ UNCHANGED <<pc, question, response, gen_calls, sql_query, conn, executed, narr_calls,
                   record, db_calls, db_reply, narration, prompt, store>>
    /\ UNCHANGED <<reruns, stats, stats_conn>>

\* agent = initialize_agent(), and st.stop() when it is None
InitializeAgent(keys) ==
    /\ page = "initialize"
    /\ IF agent.made
       THEN /\ main_agent' = agent
            /\ page' = "sidebar"
            /\ UNCHANGED <<agent, constructions>>
       ELSE \E groq_api_key \in keys :
               LET built == BusinessAIAgent(groq_api_key)
               IN  /\ constructions' = constructions + 1
                   /\ IF built.ok
                      THEN /\ agent' = built.value
                           /\ main_agent' = built.value
                           /\ page' = "sidebar"
                      ELSE /\ main_agent' = NoAgent
                           /\ page' = "stopped"
                           /\ UNCHANGED agent
    /\ UNCHANGED <<pc, question, response, gen_calls, sql_query, conn, executed, narr_calls,
                   record, db_calls, db_reply, narration, prompt, store>>
    /\ UNCHANGED <<reruns, stats, stats_conn>>

\* stats = get_database_stats() in the sidebar; st.cache_data keeps what the
\* first call returned and later runs do not call the function again
GetDatabaseStats(dbs) ==
    /\ page = "sidebar"
    /\ IF stats.called
       THEN UNCHANGED <<stats, stats_conn>>
       ELSE \E db \in dbs :
               LET s == get_database_stats(db)
               IN  /\ stats' = [called |-> TRUE, db |-> db, value |-> s.value, error |-> s.error]
                   /\ stats_conn' = s.conn
    /\ page' = "question"
    /\ UNCHANGED <<pc, question, response, gen_calls, sql_query, conn, executed, narr_calls,
                   record, db_calls, db_reply, narration, prompt, store>>
    /\ UNCHANGED <<agent, constructions, reruns, main_agent>>

\* the rest of main after the question area: the run of the script ends
FinishRun ==
    /\ page = "question"
    /\ pc[1] \in {"idle", "done"}
    /\ page' = "idle"
    /\ UNCHANGED <<pc, question, response, gen_calls, sql_query, conn, executed, narr_calls,
                   record, db_calls, db_reply, narration, prompt, store>>
    /\ UNCHANGED <<agent, constructions, reruns, stats, stats_conn, main_agent>>

\* the button of the question area calls agent.answer_question(question)
NextDashboard ==
    \/ RunScript
    \/ InitializeAgent(ApiKeys)
    \/ GetDatabaseStats(StatsDbReplies)
    \/ page = "question" /\ AnswerQuestion(1, CallerQuestions)
    \/ page = "question" /\ GenerateSqlQuery(1, CallerReplies)
    \/ page = "question" /\ ExecuteQuery(1, CallerDbReplies)
    \/ page = "question" /\ InterpretResults(1)
    \/ FinishRun

SpecDashboard == InitDashboard /\ [][NextDashboard]_vars

(***************************************************************************)
(* Properties                                                              *)
(***************************************************************************)
\* _generate_sql_query has run for request r
Generated(r) == pc[r] \in {"execute", "interpret", "done"}

\* the model answered the query prompt of request r with a text
ModelAnswered(r) == response[r].called /\ ~response[r].raised

\* the fast-path predicates and their statements, by position in the chain
FastPathPredicate(i, question_lower) ==
    CASE i = 1 -> IsBestSeller(question_lower)
      [] i = 2 -> IsTopProduct(question_lower)
      [] i = 3 -> IsMonthlySales(question_lower)
      [] i = 4 -> IsLowStock(question_lower)

CannedStatement(i) ==
    CASE i = 1 -> BestSellerQuery
      [] i = 2 -> TopProductQuery
      [] i = 3 -> MonthlySalesQuery
      [] i = 4 -> LowStockQuery

\* a canned statement without the newline and the 12 blanks written before
\* its SELECT and after its last line
CannedBody(i) == SubSeq(CannedStatement(i), 14, Len(CannedStatement(i)) - 13)

Matching(q) == {i \in 1..4 : FastPathPredicate(i, Lower(q))}

\* s starts, whatever the case of its letters, with a SQL command keyword
BeginsWithSqlKeyword(s) ==
    \E kw \in SqlCommands : Len(s) >= Len(kw) /\ Upper(Take(s, Len(kw))) = kw

ValidationError ==
    "Error generating SQL query: Generated query doesn't start with a valid SQL command"

\* C1: when the lower-cased question satisfies a fast-path predicate,
\* _generate_sql_query returns the stripped canned statement of a predicate the
\* question satisfies and llm.invoke is not called, whatever the model would do.
C1_FastPathReturnsCanned ==
    \A r \in Requests :
       (Generated(r) /\ Matching(question[r]) # {}) =>
          /\ gen_calls[r] = 0
          /\ ~response[r].called
          /\ \E i \in Matching(question[r]) : sql_query[r] = Some(CannedBody(i))

C1_Witness ==
    \E r \in Requests :
       /\ pc[r] = "execute"
       /\ Matching(question[r]) # {}
       /\ sql_query[r].some
       /\ gen_calls[r] = 0

\* C2: for "What products are low in stock across all warehouses?" the request
\* takes the fast path: llm.invoke is not called for the query and the
\* synthesized query is the canned low-stock statement.
C2_LowInStockTakesFastPath ==
    \A r \in Requests :
       (Generated(r) /\ question[r] = LowInStockQuestion) =>
          /\ gen_calls[r] = 0
          /\ sql_query[r] = Some(CannedBody(4))
          /\ Contains(sql_query[r].val, "FROM inventory i")
          /\ Contains(sql_query[r].val, "JOIN products p")
          /\ Contains(sql_query[r].val, "JOIN warehouses w")
          /\ Contains(sql_query[r].val, "WHERE i.quantity_on_hand <= i.reorder_level")
          /\ Contains(sql_query[r].val, "ORDER BY i.quantity_on_hand ASC")

\* C3: when the question satisfies several fast-path predicates, the statement
\* returned is that of the first of them in the order best-seller-by-month,
\* top-product-revenue, sales-by-month, low-stock.
C3_FirstPredicateWins ==
    \A r \in Requests :
       Generated(r) =>
          \A i \in Matching(question[r]) :
             (\A j \in Matching(question[r]) : i <= j) => sql_query[r] = Some(CannedBody(i))

C3_Witness ==
    \E r \in Requests :
       /\ Generated(r)
       /\ Cardinality(Matching(question[r])) >= 2
       /\ sql_query[r].some

\* C4: every query _generate_sql_query returns starts, case-insensitively, with
\* SELECT, WITH, CREATE, INSERT, UPDATE or DELETE, and when the cleaned reply
\* of the model does not, the call fails with the generation error.
C4_ReturnedQueryStartsWithKeyword ==
    \A r \in Requests :
       /\ sql_query[r].some => BeginsWithSqlKeyword(sql_query[r].val)
       /\ (ModelAnswered(r) /\ ~BeginsWithSqlKeyword(CleanResponse(response[r].text))) =>
             /\ sql_query[r] = None
             /\ pc[r] = "done"
             /\ record[r] = FailureRecord(question[r], ValidationError)

C4_Witness ==
    \E r \in Requests :
       /\ ModelAnswered(r)
       /\ Strip(response[r].text) # ""
       /\ pc[r] = "done"
       /\ ~record[r].success
       /\ record[r].error = ValidationError

\* C5: when the reply of the model, fences and known prefixes removed, has a
\* line that starts with a SQL keyword, the lines before the first such line
\* are discarded and the query returned has that line as its first line.
C5_SkipsToFirstKeywordLine ==
    \A r \in Requests :
       ModelAnswered(r) =>
          LET lines == SplitLines(WithoutFencesAndPrefixes(response[r].text))
              starts == {k \in 1..Len(lines) : BeginsWithSqlKeyword(Strip(lines[k]))}
          IN  starts # {} =>
                 LET first == CHOOSE k \in starts : \A j \in starts : k <= j
                 IN  /\ sql_query[r].some
                     /\ SplitLines(sql_query[r].val)[1] = Strip(lines[first])

\* C6: the first whitespace-delimited word of a query returned from the model
\* path is exactly one of SELECT, WITH, CREATE, INSERT, UPDATE, DELETE, in any
\* case of its letters.
C6_FirstWordIsKeyword ==
    \A r \in Requests :
       (ModelAnswered(r) /\ sql_query[r].some) =>
          Upper(FirstWord(sql_query[r].val)) \in SqlCommands

\* C7: when no predicate matches and the model replies
\* "Here's the SQL query:\n```sql\nSELECT 1\n```", the synthesized query is
\* exactly "SELECT 1".
C7_ScenarioYieldsSelect1 ==
    \A r \in Requests :
       (ModelAnswered(r) /\ response[r].text = ScenarioOutput) =>
          sql_query[r] = Some("SELECT 1")

C7_Witness ==
    \E r \in Requests :
       /\ ModelAnswered(r)
       /\ response[r].text = ScenarioOutput
       /\ Matching(question[r]) = {}
       /\ pc[r] = "execute"

\* the statement of a reply that is one fenced block and nothing else
IsFencedBlock(text, stmt) ==
    \E open \in {Fence \o "sql\n", Fence \o "\n"} : text = open \o stmt \o "\n" \o Fence

StripEach(lines) == [i \in 1..Len(lines) |-> Strip(lines[i])]

\* C8 as claimed: no query returned from the model path holds a fence, and a
\* reply that is only a fenced block around a statement starting with a
\* keyword yields that statement, unchanged, without the fences.
C8_FencedBlockYieldsStatement ==
    \A r \in Requests :
       ModelAnswered(r) =>
          /\ sql_query[r].some => ~Contains(sql_query[r].val, Fence)
          /\ \A stmt \in Statements :
                IsFencedBlock(response[r].text, stmt) => sql_query[r] = Some(stmt)

\* C8 as amended: no query returned from the model path holds a fence, and a
\* reply that is only a fenced block around a statement starting with a
\* keyword yields that statement without the fences, each of its lines
\* stripped of its leading and trailing whitespace and the blank lines at its
\* end dropped.
C8_FencedBlockYieldsStrippedLines ==
    \A r \in Requests :
       ModelAnswered(r) =>
          /\ sql_query[r].some => ~Contains(sql_query[r].val, Fence)
          /\ \A stmt \in Statements :
                IsFencedBlock(response[r].text, stmt) =>
                   sql_query[r] = Some(Strip(JoinLines(StripEach(SplitLines(stmt)))))

C8_Witness ==
    \E r \in Requests :
       /\ ModelAnswered(r)
       /\ \E stmt \in Statements :
             /\ IsFencedBlock(response[r].text, stmt)
             /\ sql_query[r].some
             /\ sql_query[r].val # stmt

\* C9: when no predicate matches and the model replies with an empty or
\* whitespace-only text, _generate_sql_query fails with the generation error
\* and answer_question returns a record with success = FALSE.
C9_EmptyReplyFails ==
    \A r \in Requests :
       (ModelAnswered(r) /\ Strip(response[r].text) = "") =>
          /\ sql_query[r] = None
          /\ pc[r] = "done"
          /\ record[r] # <<>>
          /\ ~record[r].success
          /\ record[r].error = ValidationError

C9_Witness ==
    \E r \in Requests :
       /\ ModelAnswered(r)
       /\ response[r].text # ""
       /\ Strip(response[r].text) = ""
       /\ pc[r] = "done"
       /\ ~record[r].success

\* C10: the connection _execute_query opened is closed when _execute_query
\* has exited, whether it returned or raised.
C10_ConnectionClosedOnExit ==
    \A r \in Requests :
       pc[r] \in {"interpret", "done"} => conn[r] # "open"

\* _generate_sql_query of request r raised
SynthesisFailed(r) == Generated(r) /\ sql_query[r] = None

\* the text of the exception _generate_sql_query raised
SynthesisError(r) ==
    IF response[r].raised THEN "Error generating SQL query: " \o response[r].text
    ELSE ValidationError

\* _execute_query of request r raised
ExecutionFailed(r) == db_reply[r].at \in {"connect", "execute"}

\* the text of the exception _execute_query raised
ExecutionError(r) ==
    (IF db_reply[r].at = "connect" \/ db_reply[r].sqlite
     THEN "Database error: " ELSE "Query execution error: ") \o db_reply[r].msg

\* C11: when synthesis or execution fails, answer_question returns a record
\* with success = FALSE, error = the text of the failure, no results, no
\* columns, record_count = 0 and analysis = the apology followed by that text.
C11_FailureRecordShape ==
    \A r \in Requests :
       (SynthesisFailed(r) \/ ExecutionFailed(r)) =>
          LET e == IF SynthesisFailed(r) THEN SynthesisError(r) ELSE ExecutionError(r)
          IN  /\ pc[r] = "done"
              /\ record[r] # <<>>
              /\ record[r].success = FALSE
              /\ record[r].error = e
              /\ record[r].results = <<>>
              /\ record[r].columns = <<>>
              /\ record[r].record_count = 0
              /\ record[r].analysis = "Sorry, I couldn't process your question: " \o e

C11_Witness ==
    \E r \in Requests :
       /\ ExecutionFailed(r)
       /\ record[r].error = "Query execution error: You can only execute one statement at a time."
       /\ record[r].analysis =
             "Sorry, I couldn't process your question: "
             \o "Query execution error: You can only execute one statement at a time."

\* C12: when the store rejects the statement, answer_question returns a
\* record with success = FALSE and no results whose error holds the message
\* of the store as the store gave it.
C12_DatabaseErrorReported ==
    \A r \in Requests :
       (db_reply[r].at = "execute" /\ db_reply[r].sqlite) =>
          /\ pc[r] = "done"
          /\ record[r] # <<>>
          /\ record[r].success = FALSE
          /\ record[r].results = <<>>
          /\ Contains(record[r].error, db_reply[r].msg)

C12_Witness ==
    \E r \in Requests :
       /\ sql_query[r] = Some("SELECT * FROM nope")
       /\ db_reply[r].msg = "no such table: nope"
       /\ pc[r] = "done"
       /\ record[r].error = "Database error: no such table: nope"

RecordKeys == {"success", "question", "sql_query", "results", "columns", "analysis", "record_count"}

\* C13: answer_question lets no exception out: whatever the model and the
\* store did, a request whose stages have ended has returned a record, and the
\* record has the keys success, question, sql_query, results, columns,
\* analysis, record_count, and error when success = FALSE.
C13_AlwaysReturnsRecord ==
    \A r \in Requests :
       /\ pc[r] \in {"idle", "generate", "execute", "interpret", "done"}
       /\ (response[r].raised \/ SynthesisFailed(r) \/ ExecutionFailed(r) \/ narration[r].called)
             => pc[r] = "done"
       /\ pc[r] # "done" => record[r] = <<>>
       /\ pc[r] = "done" =>
             /\ record[r] # <<>>
             /\ record[r].success \in BOOLEAN
             /\ DOMAIN record[r] = IF record[r].success THEN RecordKeys
                                   ELSE RecordKeys \cup {"error"}

C13_Witness ==
    \E r \in Requests :
       /\ response[r].raised
       /\ pc[r] = "done"
       /\ "error" \in DOMAIN record[r]

\* C14: the stages run in the order synthesis, execution, narration, and a
\* stage runs only when the stages before it succeeded: once synthesis has
\* failed no connection is opened, no statement executed and the model is not
\* called for narration; once execution has failed the model is not called
\* for narration.
C14_StagesShortCircuit ==
    \A r \in Requests :
       /\ SynthesisFailed(r) =>
             /\ conn[r] = "none"
             /\ db_reply[r] = NoDb
             /\ db_calls[r] = 0
             /\ narr_calls[r] = 0
             /\ ~narration[r].called
       /\ ExecutionFailed(r) => narr_calls[r] = 0 /\ ~narration[r].called
       /\ db_reply[r] # NoDb => sql_query[r] # None
       /\ (narr_calls[r] > 0 \/ pc[r] = "interpret") => db_reply[r].at = "done"

C14_Witness ==
    \E r \in Requests :
       /\ SynthesisFailed(r)
       /\ pc[r] = "done"
       /\ conn[r] = "none"
       /\ narr_calls[r] = 0

\* a step of request r after which one of its calls has been made again
\* although it had failed
Reattempts(r) ==
    \/ response[r].raised /\ gen_calls'[r] # gen_calls[r]
    \/ SynthesisFailed(r) /\ response'[r] # response[r]
    \/ ExecutionFailed(r) /\ (db_reply'[r] # db_reply[r] \/ db_calls'[r] # db_calls[r]
                                 \/ conn'[r] # conn[r])
    \/ narration[r].raised /\ narr_calls'[r] # narr_calls[r]

\* C15: there are no retries: within one request the model is called at most
\* once for the query and at most once for the analysis, the statement is
\* executed at most once, and no call is made again after it failed.
C15_NoRetries ==
    /\ [](\A r \in Requests : gen_calls[r] <= 1 /\ db_calls[r] <= 1 /\ narr_calls[r] <= 1)
    /\ [][\A r \in Requests : ~Reattempts(r)]_vars

C15_Witness ==
    \E r \in Requests :
       /\ pc[r] = "done"
       /\ gen_calls[r] = 1
       /\ db_calls[r] = 1
       /\ narr_calls[r] = 1
       /\ narration[r].raised

\* the rows of request r as the record holds them
Results(r) == record[r].results

\* C16: when llm.invoke raises for the analysis prompt the request still
\* succeeds: the record has success = TRUE and every row the store returned,
\* and its analysis holds the text of the exception and the repr of the first
\* rows of the result set, three of them at most.
C16_NarrationFailureKeepsResults ==
    \A r \in Requests :
       (narration[r].called /\ narration[r].raised) =>
          /\ pc[r] = "done"
          /\ record[r] # <<>>
          /\ record[r].success = TRUE
          /\ Results(r) = executed[r].results
          /\ Len(Results(r)) = Len(db_reply[r].rows)
          /\ record[r].record_count = Len(db_reply[r].rows)
          /\ LET n == Len(Results(r))
                 k == IF n < 3 THEN n ELSE 3
             IN  /\ record[r].analysis =
                       "Results found but interpretation failed: " \o narration[r].text
                       \o "\n\nRaw results: " \o ReprList(SubSeq(Results(r), 1, k)) \o "..."
                 /\ \A i \in 1..k : Contains(record[r].analysis, ReprDict(Results(r)[i]))
                 /\ \A i \in (k + 1)..n : ~Contains(record[r].analysis, ReprDict(Results(r)[i]))

C16_Witness ==
    \E r \in Requests :
       /\ narration[r].raised
       /\ pc[r] = "done"
       /\ record[r].success
       /\ record[r].record_count > 3
       /\ Contains(record[r].analysis, "Connection error.")

\* C17: _interpret_results on an empty result set returns the text
\* "No data found for your query." and does not call the model.
C17_EmptyResultsNoNarration ==
    \A r \in Requests :
       (pc[r] = "done" /\ db_reply[r].at = "done" /\ db_reply[r].rows = <<>>) =>
          /\ record[r].success = TRUE
          /\ record[r].analysis = "No data found for your query."
          /\ narr_calls[r] = 0
          /\ ~narration[r].called
          /\ prompt[r] = None

C17_Witness ==
    \E r \in Requests :
       /\ pc[r] = "done"
       /\ db_reply[r].at = "done"
       /\ db_reply[r].description = Some(StockColumns)
       /\ record[r].results = <<>>
       /\ record[r].analysis = "No data found for your query."

\* the offsets at which marker occurs in s
Offsets(s, marker) ==
    {i \in 0..(Len(s) - Len(marker)) : SubSeq(s, i + 1, i + Len(marker)) = marker}

FirstOffset(s, marker) ==
    CHOOSE i \in Offsets(s, marker) : \A j \in Offsets(s, marker) : i <= j

\* the part of the analysis prompt between its QUERY RESULTS heading and
\* its INSTRUCTIONS heading
ResultsSection(p) ==
    LET head == " records):\n"
        rest == Drop(p, FirstOffset(p, head) + Len(head))
    IN  Take(rest, FirstOffset(rest, "\n\nINSTRUCTIONS:"))

NonEmpty(lines) == SelectSeq(lines, LAMBDA l : l # "")

\* line is the numbered line of row number i of results
IsNumberedRow(line, i, results, columns) ==
    /\ StartsWith(line, StrNat(i) \o ". ")
    /\ \A c \in 1..Len(columns) :
          Contains(line, columns[c] \o ": " \o StrValue(results[i].get[columns[c]]))

\* C18: the analysis prompt of a result set of n rows holds one numbered line
\* for each of the n rows when 1 <= n <= 10; when n > 10 it states the count n
\* and holds numbered lines for the first 5 rows and no other; the model is
\* then called once.
C18_PromptRendersRows ==
    \A r \in Requests :
       (pc[r] = "done" /\ db_reply[r].at = "done" /\ db_reply[r].rows # <<>>) =>
          /\ narr_calls[r] = 1
          /\ prompt[r] # None
          /\ LET n == Len(Results(r))
                 lines == NonEmpty(SplitLines(ResultsSection(prompt[r].val)))
             IN  IF n <= 10
                 THEN /\ Len(lines) = n
                      /\ \A i \in 1..n :
                            IsNumberedRow(lines[i], i, Results(r), record[r].columns)
                 ELSE /\ Len(lines) = 6
                      /\ lines[1] = "Found " \o StrNat(n) \o " records. Here are the first 5:"
                      /\ \A i \in 1..5 :
                            IsNumberedRow(lines[i + 1], i, Results(r), record[r].columns)

C18_Witness ==
    \E r \in Requests :
       /\ pc[r] = "done"
       /\ narr_calls[r] = 1
       /\ Len(record[r].results) = 11
       /\ Contains(prompt[r].val, "Found 11 records. Here are the first 5:\n1. product_name: Widget")
       /\ ~Contains(prompt[r].val, "\n6. product_name")

\* the step in which _execute_query of request r raises
ExecutionRaises(r) == pc[r] = "execute" /\ pc'[r] = "done"

\* C19: an _execute_query whose statement the store rejects raises an
\* execution error and leaves the committed contents of the store as they
\* were before the call.
C19_RejectedStatementChangesNothing ==
    [][\A r \in Requests :
          ExecutionRaises(r) =>
             /\ store' = store
             /\ ~record'[r].success
             /\ \/ StartsWith(record'[r].error, "Database error: ")
                \/ StartsWith(record'[r].error, "Query execution error: ")]_vars

C19_Witness ==
    \E r \in Requests :
       /\ sql_query[r] = Some("DELETE FROM t")
       /\ db_reply[r].at = "execute"
       /\ db_reply[r].writes
       /\ record[r].error = "Database error: UNIQUE constraint failed: t.a"
       /\ "DELETE FROM t" \notin store

\* C20: every row _execute_query returns is a mapping whose keys, in order,
\* are the column names it returns, with the value of each column, NULL
\* included; the column names are empty when the statement has no description.
C20_RowKeysAreColumns ==
    \A r \in Requests :
       (db_reply[r].at = "done" /\ pc[r] \in {"interpret", "done"}) =>
          /\ db_reply[r].description = None => executed[r].columns = <<>>
          /\ db_reply[r].description # None => executed[r].columns = db_reply[r].description.val
          /\ Len(executed[r].results) = Len(db_reply[r].rows)
          /\ \A i \in 1..Len(executed[r].results) :
                /\ executed[r].results[i].keys = executed[r].columns
                /\ \A c \in 1..Len(executed[r].columns) :
                      executed[r].results[i].get[executed[r].columns[c]] = db_reply[r].rows[i][c]

\* C21: two calls of answer_question with the same fast-path question
\* synthesize the same statement without calling the model, whatever the
\* model would reply to either, and when the store answers both alike their
\* records hold the same sql_query, results and columns.
C21_FastPathIdempotent ==
    \A a, b \in DOMAIN pc :
       (question[a] = question[b] /\ Matching(question[a]) # {}
          /\ Generated(a) /\ Generated(b)) =>
          /\ sql_query[a] = sql_query[b]
          /\ gen_calls[a] = 0 /\ gen_calls[b] = 0
          /\ (pc[a] = "done" /\ pc[b] = "done" /\ db_reply[a] = db_reply[b]) =>
                /\ record[a].success = record[b].success
                /\ record[a].sql_query = record[b].sql_query
                /\ record[a].results = record[b].results
                /\ record[a].columns = record[b].columns

C21_Witness ==
    \E a, b \in DOMAIN pc :
       /\ a # b
       /\ question[a] = LowStockQuestion /\ question[b] = LowStockQuestion
       /\ pc[a] = "done" /\ pc[b] = "done"
       /\ record[a].success /\ record[b].success
       /\ record[a].sql_query = Some(Strip(LowStockQuery))
       /\ record[a].results # <<>>
       /\ record[a].results = record[b].results
       /\ narration[a] # narration[b]

\* what a step may change for request r
OwnState(r) ==
    <<pc[r], question[r], response[r], gen_calls[r], sql_query[r], conn[r], executed[r],
      narr_calls[r], record[r], db_calls[r], db_reply[r], narration[r], prompt[r]>>

\* what request r was given: its question and what the model and the store
\* did for it
OwnInputs(r) == <<question[r], response[r], db_reply[r], narration[r]>>

\* C22: in any interleaving of concurrent answer_question calls on one agent
\* a step of one call changes the connection and the other state of that call
\* only, no step writes the fields of the agent, and two calls given the same
\* question and the same responses of the model and the store return the same
\* record.
C22_CallsAreIndependent ==
    /\ [](\A a, b \in DOMAIN pc :
            (pc[a] = "done" /\ pc[b] = "done" /\ OwnInputs(a) = OwnInputs(b)) =>
               record[a] = record[b])
    /\ [][/\ agent' = agent
          /\ \E r \in DOMAIN pc : \A q \in DOMAIN pc \ {r} : OwnState(q)' = OwnState(q)]_vars

C22_Witness ==
    \E a, b \in DOMAIN pc :
       /\ a # b
       /\ conn[a] = "open" /\ pc[a] = "done"
       /\ conn[b] = "closed" /\ pc[b] = "done"
       /\ record[b].success
       /\ ~record[a].success
       /\ agent = BusinessAIAgent(ApiKey).value

\* C23: when every call of the model and of the store returns or raises, a
\* request that answer_question has started eventually finishes with a
\* returned record, success or failure.
C23_RequestFinishes ==
    \A r \in Requests :
       (pc[r] = "generate") ~> (pc[r] = "done" /\ record[r] # <<>>)

C23_Witness ==
    \E r \in Requests :
       /\ pc[r] = "done"
       /\ record[r] # <<>>
       /\ record[r].success
       /\ gen_calls[r] + db_calls[r] + narr_calls[r] = 2

\* C24: in every record answer_question returns record_count is the number
\* of rows in results, and a record with success = TRUE holds the statement
\* that was executed as its sql_query and has no error entry.
C24_RecordIsConsistent ==
    \A r \in Requests :
       pc[r] = "done" =>
          /\ record[r].record_count = Len(record[r].results)
          /\ record[r].success =>
                /\ db_calls[r] = 1
                /\ db_reply[r].at = "done"
                /\ sql_query[r] # None
                /\ record[r].sql_query = sql_query[r]
                /\ "error" \notin DOMAIN record[r]

C24_Witness ==
    \E r \in Requests :
       /\ pc[r] = "done"
       /\ record[r].success
       /\ record[r].sql_query = Some("SELECT 1")
       /\ record[r].record_count = 4
       /\ Len(record[r].results) = 4

\* C25: every failure record has sql_query = None, also when the failure
\* came from _execute_query after a statement had been synthesized.
C25_FailureHidesStatement ==
    \A r \in Requests :
       (pc[r] = "done" /\ ~record[r].success) => record[r].sql_query = None

C25_Witness ==
    \E r \in Requests :
       /\ pc[r] = "done"
       /\ ExecutionFailed(r)
       /\ sql_query[r] = Some("SELECT * FROM nope")
       /\ ~record[r].success
       /\ record[r].sql_query = None

\* C26: the cleanup and validation of _generate_sql_query are idempotent: a
\* statement q that was accepted from a reply of the model is accepted again
\* when it is given as the reply, and comes back as q.
C26_CleanupIdempotent ==
    \A r \in Requests :
       (ModelAnswered(r) /\ sql_query[r].some) =>
          /\ generate_from_model(Content(response[r].text)) = Return(sql_query[r].val)
          /\ generate_from_model(Content(sql_query[r].val)) = Return(sql_query[r].val)

C26_Witness ==
    \E r \in Requests :
       /\ ModelAnswered(r)
       /\ response[r].text = ScenarioOutput
       /\ sql_query[r] = Some("SELECT 1")
       /\ sql_query[r].val # response[r].text
       /\ generate_from_model(Content("SELECT 1")) = Return("SELECT 1")

\* the step in which _execute_query of request r returns
ExecutionReturns(r) == pc[r] = "execute" /\ pc'[r] = "interpret"

\* C27: when a synthesized INSERT, UPDATE or DELETE statement executes
\* without error, its connection is closed without a commit and the
\* committed contents of the store are what they were before the call.
C27_WritesAreNotCommitted ==
    [][\A r \in Requests :
          (/\ ExecutionReturns(r)
           /\ Upper(FirstWord(sql_query[r].val)) \in {"INSERT", "UPDATE", "DELETE"}) =>
             /\ store' = store
             /\ conn'[r] = "closed"]_vars

C27_Witness ==
    \E r \in Requests :
       /\ pc[r] \in {"interpret", "done"}
       /\ sql_query[r] = Some("DELETE FROM t")
       /\ db_reply[r].at = "done"
       /\ db_reply[r].writes
       /\ conn[r] = "closed"
       /\ "DELETE FROM t" \notin store

\* the agents a construction can give
BuiltAgents == {BusinessAIAgent(k).value : k \in {k \in ApiKeys : BusinessAIAgent(k).ok}}

StatsKeys == {StatsQueries[i].key : i \in 1..Len(StatsQueries)}

\* C28: initialize_agent stores an agent in the session state only when the
\* construction succeeds, and every later run gets that agent without another
\* construction; when the construction fails nothing is stored, None is
\* returned and main stops before a question is answered.
C28_AgentStoredOnce ==
    /\ [](agent.made => (agent \in BuiltAgents /\ constructions >= 1))
    /\ [](page \in {"sidebar", "question"} => (agent.made /\ main_agent = agent))
    /\ [](page = "stopped" =>
            /\ ~agent.made
            /\ main_agent = NoAgent
            /\ constructions >= 1
            /\ pc[1] = "idle"
            /\ record[1] = <<>>)
    /\ [](pc[1] # "idle" => agent.made)
    /\ [][agent.made => (agent' = agent /\ constructions' = constructions)]_vars
    /\ [][(page = "initialize" /\ ~agent.made) =>
             /\ constructions' = constructions + 1
             /\ agent'.made <=> page' = "sidebar"
             /\ ~agent'.made <=> page' = "stopped"]_vars

C28_Witness ==
    /\ reruns = 3
    /\ constructions = 2
    /\ agent.made
    /\ page = "sidebar"
    /\ main_agent = agent

\* C29: when all six statistics queries succeed, get_database_stats returns a
\* mapping with total_products, total_customers, total_orders, total_revenue,
\* pending_orders and low_stock, and the connection it opened is closed.
C29_StatsComplete ==
    (stats.called /\ stats.db.connects /\ stats.db.failing = 0) =>
       /\ \A k \in StatsKeys : k \in DOMAIN stats.value.get
       /\ stats_conn = "closed"

====
